---- MODULE Spec2Model ----
(***************************************************************************)
(* useRefHistory (src/src/composables/useRefHistory.ts): a history tracker *)
(* attached to one Vue ref.  The model follows the composable statement by *)
(* statement and the Vue scheduler it runs on: watch() and watchEffect()   *)
(* are created with the default flush 'pre', so a write to a tracked ref   *)
(* only queues the watcher's job; the jobs run in one flush microtask, and *)
(* a nextTick() callback runs after the flush that is pending when it is   *)
(* registered.                                                             *)
(***************************************************************************)
EXTENDS Integers, Sequences, FiniteSets, TLC

\* ------------------------------------------------------------------ bounds
MaxVal == 2        \* the cell holds a number in 0..MaxVal
MaxCap == 2        \* the capacity resolves to a number in 0..MaxCap
MaxClock == 1      \* Date.now() ranges over 0..MaxClock
MaxOps == 2        \* operations called within one tick
MaxWrites == 3     \* external writes counted since construction
MaxBurst == 4      \* undo()/redo() calls within one tick made of them alone

Values == 0..MaxVal
Capacities == 0..MaxCap
NoValue == 0 - 1   \* "the cell never held another value"

VARIABLES
    source,        \* source.value, the tracked cell
    boxed,         \* TRUE when the values of the cell are objects, FALSE
                   \* when they are numbers, which have no identity
    sourceRef,     \* the identity of the object source.value refers to
    history,       \* history.value, newest first
    future,        \* future.value, newest first
    doingUndo,     \* suppression flag set by undo()
    doingRedo,     \* suppression flag set by redo()
    lastChanged,   \* time of the last recorded change
    capacity,      \* toValue(capacity): a number, or the value of the ref
                   \* behind a ref or getter capacity (a plain number is
                   \* a ref that is never written)
    watchOld,      \* the oldValue kept by the watch(source) watcher
    watchOldRef,   \* the identity of the object oldValue refers to
    queue,         \* scheduler: jobs queued for the next flush, in order
    micro,         \* microtask queue: "flush", "undoDone", "redoDone"
    afterFlush,    \* nextTick callbacks chained on the pending flush
    running,       \* TRUE while the microtask queue is being drained
    now,           \* Date.now()
    \* history variables (observers, never read by the program)
    pre,           \* the state in which the current tick began
    ops,           \* the operations called in the current tick
    prev,          \* the value the cell held immediately before this one
    nWrites,       \* number of external writes since construction
    discipline,    \* "serial", "batched" or "other" (see Discipline)
    undone,        \* the state before the last undo(), while it matters
    lastWriter,    \* the operation of this tick that last changed the cell
    since,         \* the time at which the cell's value became current
    trail          \* the cell values left by the undo() calls not yet redone

vars == << source, boxed, sourceRef, history, future, doingUndo, doingRedo,
           lastChanged, capacity, watchOld, watchOldRef, queue, micro, afterFlush, running,
           now, pre, ops, prev, nWrites, discipline, undone, lastWriter, since, trail >>

ghost == << pre, ops, prev, nWrites, discipline, undone, lastWriter, since, trail >>

\* ----------------------------------------------------------------- helpers
Range(s) == { s[i] : i \in 1..Len(s) }

Min(a, b) == IF a < b THEN a ELSE b

Front(s) == SubSeq(s, 1, Len(s) - 1)

ValuesOf(s) == [ i \in 1..Len(s) |-> s[i].value ]

\* JSON.stringify of a non-negative integer: its decimal digits.
RECURSIVE stringify(_)
stringify(n) == IF n < 10 THEN << n >> ELSE Append(stringify(n \div 10), n % 10)

\* JSON.parse of a decimal numeral.
RECURSIVE parse(_)
parse(s) == IF Len(s) = 1 THEN s[1] ELSE 10 * parse(Front(s)) + s[Len(s)]

\* clone(value) for a number.
cloneValue(v) == parse(stringify(v))

\* Object identities.  A number has none (NoRef).  The program's user holds
\* one object per value and assigns that object to the cell; JSON.parse builds
\* a new object, one that is none of the user's and none of those the cell,
\* the watcher and the lists refer to.  The copies made for the records of
\* the lists are told apart from every other object but not from each other:
\* they share the identity Stored.
NoRef == 0 - 1

Stored == MaxVal + 1

ExternalRefs == IF boxed THEN Values ELSE { NoRef }

ExternalRef(v) == IF boxed THEN v ELSE NoRef

Live == { sourceRef, watchOldRef }
            \cup { history[i].ref : i \in 1..Len(history) }
            \cup { future[i].ref : i \in 1..Len(future) }

Unused == ((Stored + 1)..(Stored + Cardinality(Live) + 1)) \ Live

\* The object built by clone: "record" for the copy of a record, made for a
\* list, "value" for the copy of a record's value, made for the cell.
cloneRef(made) ==
    IF ~boxed THEN NoRef
    ELSE IF made = "record" THEN Stored
    ELSE CHOOSE r \in Unused : \A q \in Unused : r <= q

\* hasChanged(value, oldValue): Object.is, identity for objects.
hasChanged(v, vRef, old, oldRef) == IF boxed THEN vRef # oldRef ELSE v # old

\* clone({ value, timestamp }): every member goes through the round trip, and
\* the value member of the result is a new object.
clone(rec) == [ value |-> parse(stringify(rec.value)),
                timestamp |-> parse(stringify(rec.timestamp)),
                ref |-> cloneRef("record") ]

recordOld_append(h, oldValue, t) == h \o << clone([ value |-> oldValue, timestamp |-> t ]) >>

\* history.value.unshift(clone({ value: oldValue, timestamp: lastChanged }))
recordOld(h, oldValue, t) == << clone([ value |-> oldValue, timestamp |-> t ]) >> \o h

recordedValue_new(newVal, oldValue) == newVal

\* The value the handler records: its oldValue argument.
recordedValue(newVal, oldValue) == oldValue

clearFuture_keep(f) == f

\* future.value = []
clearFuture(f) == << >>

evict_offByOne(h, cap) == IF cap - 1 = Len(h) THEN Front(h) ELSE h

evict_newest(h, cap) == IF cap = Len(h) THEN Tail(h) ELSE h

\* if (cap === history.value.length) history.value.pop()
evict(h, cap) == IF cap = Len(h) THEN Front(h) ELSE h

undoFuture_append(f, v, t) == f \o << clone([ value |-> v, timestamp |-> t ]) >>

\* future.value.unshift(clone({ value: source.value, timestamp: Date.now() }))
undoFuture(f, v, t) == << clone([ value |-> v, timestamp |-> t ]) >> \o f

\* The record is pushed as built, its value still the cell's object.
redoHistory_alias(h, v, t) == << [ value |-> v, timestamp |-> t, ref |-> sourceRef ] >> \o h

redoHistory_append(h, v, t) == h \o << clone([ value |-> v, timestamp |-> t ]) >>

\* history.value.unshift(clone({ value: source.value, timestamp: Date.now() }))
redoHistory(h, v, t) == << clone([ value |-> v, timestamp |-> t ]) >> \o h

\* queueJob: a job already queued is not queued twice.
queueJob(q, job) == IF job \in Range(q) THEN q ELSE Append(q, job)

\* queueFlush: one flush microtask per tick.
queueFlush(m) == IF "flush" \in Range(m) THEN m ELSE Append(m, "flush")

\* No reactive callback is pending.
Settled == micro = << >> /\ afterFlush = << >> /\ queue = << >> /\ ~running

Snapshot == [ source |-> source, history |-> history, future |-> future,
              capacity |-> capacity, since |-> since ]

NoSnapshot == [ source |-> NoValue, history |-> << >>, future |-> << >>,
                capacity |-> 0, since |-> 0 ]

\* "serial": only external writes so far, each made in a settled state;
\* "batched": only external writes so far, some sharing a tick;
\* "other": anything else, or more writes than are counted.
Discipline(op) ==
    IF op = "write" /\ nWrites < MaxWrites /\ discipline # "other"
    THEN IF Settled /\ discipline = "serial" THEN "serial" ELSE "batched"
    ELSE "other"

NoUndo == [ stage |-> "none", source |-> NoValue, history |-> << >>,
            future |-> << >>, settled |-> FALSE ]

\* "undone" after undo(), "redone" when redo() is the next operation called,
\* "none" after anything else.
Undone(op) ==
    IF op = "undo"
    THEN [ stage |-> "undone", source |-> source, history |-> ValuesOf(history),
           future |-> ValuesOf(future), settled |-> Settled ]
    ELSE IF op = "redo" /\ undone.stage = "undone"
    THEN [ undone EXCEPT !.stage = "redone" ]
    ELSE NoUndo

\* The operation being observed assigns another value to the cell.
Assigned == hasChanged(source', sourceRef', source, sourceRef)

\* undo() with a record to restore leaves the cell's value on the trail,
\* redo() with a record to restore takes one off, an external change of the
\* cell empties it.
Trail(op) ==
    IF op = "undo" /\ history # << >> THEN << source >> \o trail
    ELSE IF op = "redo" /\ future # << >>
    THEN (IF trail = << >> THEN trail ELSE Tail(trail))
    ELSE IF op = "write" /\ Assigned THEN << >>
    ELSE trail

\* An operation called by the program's user is observed.
Observe(op) ==
    /\ ops' = Append(ops, op)
    /\ pre' = IF Settled THEN Snapshot ELSE pre
    /\ prev' = IF Assigned THEN source ELSE prev
    /\ discipline' = Discipline(op)
    /\ nWrites' = IF discipline' = "other" THEN 0 ELSE nWrites + 1
    /\ undone' = Undone(op)
    /\ lastWriter' = IF Assigned THEN op ELSE lastWriter
    /\ since' = IF Assigned THEN now ELSE since
    /\ trail' = Trail(op)

\* A microtask ran: the observers forget the tick when it has settled.
Forget ==
    /\ ops' = IF micro' = << >> THEN << >> ELSE ops
    /\ pre' = IF micro' = << >> THEN NoSnapshot ELSE pre
    /\ lastWriter' = IF micro' = << >> THEN "none" ELSE lastWriter
    /\ UNCHANGED << prev, nWrites, discipline, undone, since, trail >>

\* ------------------------------------------------------------------- Init
\* The state after useRefHistory(source, capacity) has returned, for a cell
\* of objects or a cell of numbers.
useRefHistory(objects) ==
    /\ boxed = objects
    /\ source \in Values
    /\ sourceRef = ExternalRef(source)
    /\ history = << >>
    /\ future = << >>
    /\ doingUndo = FALSE
    /\ doingRedo = FALSE
    /\ now = 0
    /\ lastChanged = now
    /\ capacity \in Capacities
    /\ watchOld = source
    /\ watchOldRef = sourceRef
    /\ queue = << >>
    /\ micro = << >>
    /\ afterFlush = << >>
    /\ running = FALSE
    /\ pre = NoSnapshot
    /\ ops = << >>
    /\ prev = NoValue
    /\ nWrites = 0
    /\ discipline = "serial"
    /\ undone = NoUndo
    /\ lastWriter = "none"
    /\ since = now
    /\ trail = << >>

\* The cell holds numbers, as in the tests.
Init == useRefHistory(FALSE)

\* The cell holds objects.
InitBoxed == useRefHistory(TRUE)

nextTick_beforeFlush(m, cb) ==
    /\ micro' = IF cb \in Range(m) THEN m ELSE << cb >> \o m
    /\ afterFlush' = afterFlush

\* nextTick(cb): after the pending flush if there is one, else a microtask.
nextTick(m, cb) ==
    IF "flush" \in Range(m)
    THEN /\ micro' = m
         /\ afterFlush' = queueJob(afterFlush, cb)
    ELSE /\ micro' = queueJob(m, cb)
         /\ afterFlush' = afterFlush

\* ---------------------------------------------------------------- actions
\* source.value = v from outside the composable.  Writing the value the ref
\* already holds triggers nothing.
Write(v) ==
    /\ ~running
    /\ Len(ops) < MaxOps
    /\ hasChanged(v, ExternalRef(v), source, sourceRef)
    /\ source' = v
    /\ sourceRef' = ExternalRef(v)
    /\ queue' = queueJob(queue, "watch")
    /\ micro' = queueFlush(micro)
    /\ UNCHANGED << history, future, doingUndo, doingRedo, lastChanged,
                    capacity, watchOld, watchOldRef, afterFlush, running, now, boxed >>
    /\ Observe("write")

\* undo() with the future record pushed outside the `if (record)` test.
undo_noGuard ==
    /\ ~running
    /\ Len(ops) < MaxOps
    /\ doingUndo' = TRUE
    /\ future' = undoFuture(future, source, now)
    /\ IF history # << >>
       THEN LET record == Head(history)
                restored == cloneValue(record.value)
                q1 == queueJob(queue, "effect")
            IN /\ history' = Tail(history)
               /\ source' = restored
               /\ sourceRef' = cloneRef("value")
               /\ queue' = IF hasChanged(restored, cloneRef("value"), source, sourceRef)
                            THEN queueJob(q1, "watch") ELSE q1
               /\ nextTick(queueFlush(micro), "undoDone")
       ELSE /\ UNCHANGED << history, source, sourceRef, queue >>
            /\ nextTick(micro, "undoDone")
    /\ UNCHANGED << doingRedo, lastChanged, capacity, watchOld, watchOldRef,
                    running, now, boxed >>
    /\ Observe("undo")

undoCall ==
    /\ ~running
    /\ doingUndo' = TRUE
    /\ IF history # << >>
       THEN LET record == Head(history)
                restored == cloneValue(record.value)
                q1 == queueJob(queue, "effect")
            IN /\ history' = Tail(history)
               /\ future' = undoFuture(future, source, now)
               /\ source' = restored
               /\ sourceRef' = cloneRef("value")
               /\ queue' = IF hasChanged(restored, cloneRef("value"), source, sourceRef)
                            THEN queueJob(q1, "watch") ELSE q1
               /\ nextTick(queueFlush(micro), "undoDone")
       ELSE /\ UNCHANGED << history, future, source, sourceRef, queue >>
            /\ nextTick(micro, "undoDone")
    /\ UNCHANGED << doingRedo, lastChanged, capacity, watchOld, watchOldRef,
                    running, now, boxed >>
    /\ Observe("undo")

\* undo(), as one of the operations of a tick.
undo == Len(ops) < MaxOps /\ undoCall

redoCall ==
    /\ ~running
    /\ doingRedo' = TRUE
    /\ IF future # << >>
       THEN LET record == Head(future)
                restored == cloneValue(record.value)
                q1 == queueJob(queue, "effect")
            IN /\ future' = Tail(future)
               /\ history' = redoHistory(history, source, now)
               /\ source' = restored
               /\ sourceRef' = cloneRef("value")
               /\ queue' = IF hasChanged(restored, cloneRef("value"), source, sourceRef)
                            THEN queueJob(q1, "watch") ELSE q1
               /\ nextTick(queueFlush(micro), "redoDone")
       ELSE /\ UNCHANGED << history, future, source, sourceRef, queue >>
            /\ nextTick(micro, "redoDone")
    /\ UNCHANGED << doingUndo, lastChanged, capacity, watchOld, watchOldRef,
                    running, now, boxed >>
    /\ Observe("redo")

\* redo(), as one of the operations of a tick.
redo == Len(ops) < MaxOps /\ redoCall

\* cap.value = c, for a capacity given as a ref or as a getter over a ref.
SetCapacity(c) ==
    /\ ~running
    /\ Len(ops) < MaxOps
    /\ c # capacity
    /\ capacity' = c
    /\ queue' = queueJob(queue, "effect")
    /\ micro' = queueFlush(micro)
    /\ UNCHANGED << source, sourceRef, history, future, doingUndo, doingRedo, lastChanged,
                    watchOld, watchOldRef, afterFlush, running, now, boxed >>
    /\ Observe("setcap")

watchCallback_noZeroCheck(newVal, oldValue) ==
    IF doingUndo \/ doingRedo
    THEN [ history |-> history, future |-> future,
           lastChanged |-> lastChanged, touched |-> FALSE ]
    ELSE [ history |-> recordOld(evict(history, capacity),
                                 recordedValue(newVal, oldValue), lastChanged),
           future |-> clearFuture(future),
           lastChanged |-> now,
           touched |-> TRUE ]

\* The watch(source) callback, called with (newVal, oldValue).
\* touched: the callback mutated history (which the watchEffect tracks).
watchCallback(newVal, oldValue) ==
    IF doingUndo \/ doingRedo
    THEN [ history |-> history, future |-> future,
           lastChanged |-> lastChanged, touched |-> FALSE ]
    ELSE LET cap == capacity IN
         IF cap = 0
         THEN [ history |-> history, future |-> clearFuture(future),
                lastChanged |-> lastChanged, touched |-> FALSE ]
         ELSE [ history |-> recordOld(evict(history, cap),
                                      recordedValue(newVal, oldValue), lastChanged),
                future |-> clearFuture(future),
                lastChanged |-> now,
                touched |-> TRUE ]

\* The watcher's job: call the callback when the value differs from oldValue.
WatchSourceJob ==
    /\ micro # << >> /\ Head(micro) = "flush"
    /\ queue # << >> /\ Head(queue) = "watch"
    /\ running' = TRUE
    /\ IF hasChanged(source, sourceRef, watchOld, watchOldRef)
       THEN LET r == watchCallback(source, watchOld)
            IN /\ history' = r.history
               /\ future' = r.future
               /\ lastChanged' = r.lastChanged
               /\ queue' = IF r.touched THEN queueJob(Tail(queue), "effect")
                                        ELSE Tail(queue)
               /\ watchOld' = source
               /\ watchOldRef' = sourceRef
       ELSE /\ queue' = Tail(queue)
            /\ UNCHANGED << history, future, lastChanged, watchOld, watchOldRef >>
    /\ UNCHANGED << source, sourceRef, doingUndo, doingRedo, capacity, micro,
                    afterFlush, now, boxed >>
    /\ Forget

capacityEffect_oldest(h, cap) ==
    IF Len(h) > cap THEN SubSeq(h, Len(h) - cap + 1, Len(h)) ELSE h

capacityEffect_offByOne(h, cap) == IF Len(h) > cap + 1 THEN SubSeq(h, 1, cap) ELSE h

\* The watchEffect over the capacity and history.value.length.
capacityEffect(h, cap) == IF Len(h) > cap THEN SubSeq(h, 1, cap) ELSE h

CapacityEffectJob ==
    /\ micro # << >> /\ Head(micro) = "flush"
    /\ queue # << >> /\ Head(queue) = "effect"
    /\ running' = TRUE
    /\ history' = capacityEffect(history, capacity)
    /\ queue' = Tail(queue)
    /\ UNCHANGED << source, sourceRef, future, doingUndo, doingRedo, lastChanged, capacity,
                    watchOld, watchOldRef, micro, afterFlush, now, boxed >>
    /\ Forget

\* The flush ends: the callbacks chained on it become microtasks.
FlushEnd ==
    /\ micro # << >> /\ Head(micro) = "flush"
    /\ queue = << >>
    /\ micro' = Tail(micro) \o afterFlush
    /\ afterFlush' = << >>
    /\ running' = (micro' # << >>)
    /\ UNCHANGED << source, sourceRef, history, future, doingUndo, doingRedo, lastChanged,
                    capacity, watchOld, watchOldRef, queue, now, boxed >>
    /\ Forget

UndoDone_keepsFlag ==
    /\ micro # << >> /\ Head(micro) = "undoDone"
    /\ micro' = Tail(micro)
    /\ running' = (micro' # << >>)
    /\ UNCHANGED << source, sourceRef, history, future, doingUndo, doingRedo, lastChanged,
                    capacity, watchOld, watchOldRef, queue, afterFlush, now, boxed >>
    /\ Forget

\* nextTick(() => (doingUndo = false))
UndoDone ==
    /\ micro # << >> /\ Head(micro) = "undoDone"
    /\ doingUndo' = FALSE
    /\ micro' = Tail(micro)
    /\ running' = (micro' # << >>)
    /\ UNCHANGED << source, sourceRef, history, future, doingRedo, lastChanged, capacity,
                    watchOld, watchOldRef, queue, afterFlush, now, boxed >>
    /\ Forget

\* nextTick(() => { doingRedo = false })
RedoDone ==
    /\ micro # << >> /\ Head(micro) = "redoDone"
    /\ doingRedo' = FALSE
    /\ micro' = Tail(micro)
    /\ running' = (micro' # << >>)
    /\ UNCHANGED << source, sourceRef, history, future, doingUndo, lastChanged, capacity,
                    watchOld, watchOldRef, queue, afterFlush, now, boxed >>
    /\ Forget

\* Time passes, between two ticks.
ClockTick ==
    /\ Settled
    /\ now < MaxClock
    /\ now' = now + 1
    /\ UNCHANGED << source, sourceRef, history, future, doingUndo, doingRedo, lastChanged,
                    capacity, watchOld, watchOldRef, queue, micro, afterFlush,
                    running, boxed >>
    /\ UNCHANGED ghost

Next ==
    \/ \E v \in Values : Write(v)
    \/ undo
    \/ redo
    \/ \E c \in Capacities : SetCapacity(c)
    \/ WatchSourceJob
    \/ CapacityEffectJob
    \/ FlushEnd
    \/ UndoDone
    \/ RedoDone

Spec == Init /\ [][Next]_vars

\* The same program with time passing between any two steps.  No branch of
\* the program reads the clock: it only flows into the timestamps.
NextTimed ==
    \/ Next
    \/ ClockTick

SpecTimed == Init /\ [][NextTimed]_vars

\* The event loop runs every queued microtask: the flush and the callbacks.
Drain ==
    \/ WatchSourceJob
    \/ CapacityEffectJob
    \/ FlushEnd
    \/ UndoDone
    \/ RedoDone

SpecLive == Init /\ [][Next]_vars /\ WF_vars(Drain)

\* The same program over a cell of objects.
SpecBoxed == InitBoxed /\ [][Next]_vars

\* The same program with longer ticks made of undo() and redo() calls only.
undoBurst ==
    /\ MaxOps <= Len(ops) /\ Len(ops) < MaxBurst
    /\ Range(ops) \subseteq { "undo", "redo" }
    /\ undoCall

redoBurst ==
    /\ MaxOps <= Len(ops) /\ Len(ops) < MaxBurst
    /\ Range(ops) \subseteq { "undo", "redo" }
    /\ redoCall

NextBurst ==
    \/ Next
    \/ undoBurst
    \/ redoBurst

SpecBurst == Init /\ [][NextBurst]_vars

TypeOK ==
    /\ source \in Values
    /\ doingUndo \in BOOLEAN /\ doingRedo \in BOOLEAN
    /\ capacity \in Capacities
    /\ Len(history) <= MaxCap + 1

\* ------------------------------------------------------------------ claims
\* The handler is about to record an external change of the cell.
Handling ==
    /\ WatchSourceJob
    /\ source # watchOld
    /\ ~doingUndo /\ ~doingRedo

\* The tick made of the operations o alone ends with this step.
SettlesAfter(o) == ops = o /\ Settled'

\* The last microtask of a tick made of the operations o is about to run.
AboutToSettle(o) ==
    /\ ops = o
    /\ queue = << >>
    /\ Len(micro) = 1
    /\ Head(micro) = "flush" => afterFlush = << >>

\* C1: undo() called in a settled state with a non-empty history: once the
\* tick has settled the cell holds the value of the former front record of
\* history, history is the former history without that record, and future is
\* the former future with one record holding the pre-undo value in front.
C1_UndoSettled ==
    [][ (SettlesAfter(<< "undo" >>) /\ pre.history # << >>) =>
          /\ source' = pre.history[1].value
          /\ history' = Tail(pre.history)
          /\ Len(future') = Len(pre.future) + 1
          /\ future'[1].value = pre.source
          /\ Tail(future') = pre.future ]_vars

C1_Witness ==
    /\ AboutToSettle(<< "undo" >>)
    /\ pre.history # << >>
    /\ pre.future # << >>
    /\ source = pre.history[1].value
    /\ source # pre.source

C5_Eviction ==
    [][ /\ (Handling /\ capacity > 0 /\ Len(history) = capacity) =>
              /\ Len(history') = capacity
              /\ history'[1].value = watchOld
              /\ Tail(history') = Front(history)
        /\ ( /\ SettlesAfter(<< "write" >>)
             /\ pre.capacity > 0
             /\ Len(pre.history) = pre.capacity ) =>
              /\ Len(history') = capacity'
              /\ history'[1].value = pre.source
              /\ Tail(history') = Front(pre.history) ]_vars

C5_Witness ==
    /\ AboutToSettle(<< "write" >>)
    /\ pre.capacity = 2
    /\ Len(pre.history) = 2
    /\ Len(history) = 2
    /\ history[2] = pre.history[1]
    /\ pre.history[1] # pre.history[2]

\* C6: when a tick made of one capacity change settles, the cell is
\* untouched; history is its former first `capacity` records if the capacity
\* fell below its length, and is unchanged otherwise (raising the capacity
\* brings no record back).
C6_CapacityChange ==
    [][ SettlesAfter(<< "setcap" >>) =>
          /\ source' = pre.source
          /\ future' = pre.future
          /\ history' = IF capacity' < Len(pre.history)
                        THEN SubSeq(pre.history, 1, capacity')
                        ELSE pre.history ]_vars

C6_Witness ==
    /\ AboutToSettle(<< "setcap" >>)
    /\ capacity = 1
    /\ Len(pre.history) = 2
    /\ history = << pre.history[1] >>
    /\ pre.history[1] # pre.history[2]

C9_NeverCurrent ==
    \A i \in 1..Len(history) : history[i].value # source

\* C9, amended: the record the handler puts at the front of history holds
\* the value the cell had before the mutation, which is not its current
\* value; when a tick made of one external write settles with capacity > 0,
\* the front record is the pre-write value and differs from the cell.
C9_FrontIsNotCurrent ==
    [][ /\ (Handling /\ capacity > 0) => history'[1].value # source'
        /\ (SettlesAfter(<< "write" >>) /\ capacity' > 0) =>
              /\ history' # << >>
              /\ history'[1].value = pre.source
              /\ history'[1].value # source' ]_vars

C9_Witness ==
    /\ AboutToSettle(<< "write" >>)
    /\ Len(history) = 2
    /\ history[1].value # source
    /\ history[2].value = source

\* The cell, history and future hold the values they held before the undo().
RoundTrip ==
    /\ source = undone.source
    /\ ValuesOf(history) = undone.history
    /\ ValuesOf(future) = undone.future

\* C10 as stated: from any reachable state, undo() followed immediately by
\* redo() leaves the cell, history and future with their pre-undo values.
C10_RoundTripAsStated == undone.stage = "redone" => RoundTrip

\* C10, amended: from any settled state with a non-empty history, undo()
\* followed immediately by redo() leaves the cell, history and future with
\* their pre-undo values, right after the redo() and once settled.
C10_RoundTrip ==
    (undone.stage = "redone" /\ undone.settled /\ undone.history # << >>)
        => RoundTrip

C10_Witness ==
    /\ undone.stage = "redone"
    /\ undone.settled
    /\ undone.history # << >>
    /\ undone.future # << >>
    /\ Settled
    /\ RoundTrip

\* C11: undo() with an empty history and redo() with an empty future leave
\* the cell, history and future as they are, at the call and once the tick
\* has settled.
C11_EmptyIsNoOp ==
    [][ /\ ((undo /\ history = << >>) \/ (redo /\ future = << >>)) =>
              UNCHANGED << source, sourceRef, history, future >>
        /\ ( \/ SettlesAfter(<< "undo" >>) /\ pre.history = << >>
             \/ SettlesAfter(<< "redo" >>) /\ pre.future = << >> ) =>
              /\ source' = pre.source
              /\ history' = pre.history
              /\ future' = pre.future ]_vars

C11_Witness ==
    /\ AboutToSettle(<< "undo" >>)
    /\ pre.history = << >>
    /\ pre.future # << >>
    /\ future = pre.future
    /\ source = pre.source

\* history after the handler has recorded the value old on top of h.
Recorded(h, old, cap) ==
    LET rest == IF Len(h) = cap THEN Front(h) ELSE h
    IN << old >> \o ValuesOf(rest)

NotifiedOf(op) ==
    /\ WatchSourceJob
    /\ source # watchOld
    /\ lastWriter = op

\* A flag-clearing callback runs while the notification of the write of
\* undo() or redo() is still to come.
ClearsBeforeNotified(op) ==
    /\ UndoDone \/ RedoDone
    /\ lastWriter = op
    /\ "watch" \in Range(queue)
    /\ source # watchOld

C14_StampedWhenCurrent ==
    [][ (Handling /\ capacity > 0) =>
            /\ history'[1].value = pre.source
            /\ history'[1].timestamp = pre.since ]_vars

\* C16: both suppression flags are false in every settled state, and after
\* any call of undo() or redo(), acting or not, the tick completes with the
\* flag the call has set back to false.
C16_FlagsReset ==
    /\ [](Settled => ~doingUndo /\ ~doingRedo)
    /\ doingUndo ~> (Settled /\ ~doingUndo)
    /\ doingRedo ~> (Settled /\ ~doingRedo)

\* undo() was called with an empty history and its flag is set.
C16_Witness ==
    /\ ops = << "undo" >>
    /\ pre.history = << >>
    /\ doingUndo
    /\ micro = << "undoDone" >>

C18_StackPair ==
    [][ /\ (undo /\ history # << >>) =>
              /\ source' = history[1].value
              /\ history' = Tail(history)
              /\ future' # << >> /\ Tail(future') = future
              /\ future'[1].value = source
        /\ (redo /\ future # << >>) =>
              /\ source' = future[1].value
              /\ future' = Tail(future)
              /\ history' # << >> /\ Tail(history') = history
              /\ history'[1].value = source
        /\ (redo /\ future # << >> /\ trail # << >>) =>
              source' = Head(trail) ]_vars

\* Two undo() calls were made and the first redo() has run.
C18_Witness ==
    /\ ops = << "redo" >>
    /\ pre.future # << >>
    /\ Len(future) = 1 /\ Len(history) = 1
    /\ Len(trail) = 1
    /\ source = pre.future[1].value
    /\ source # pre.source
    /\ trail[1] # source

\* A tick made of one external write that changed the cell and of one call
\* of undo() or redo(), in either order, ends with this step; overwritten is
\* the value the write replaced.
WriteSharedTick(overwritten) ==
    \/ /\ SettlesAfter(<< "undo", "write" >>) \/ SettlesAfter(<< "redo", "write" >>)
       /\ lastWriter = "write"
       /\ overwritten = prev
    \/ /\ \/ SettlesAfter(<< "write", "undo" >>) /\ pre.history = << >>
          \/ SettlesAfter(<< "write", "redo" >>) /\ pre.future = << >>
       /\ source' # pre.source
       /\ overwritten = pre.source

\* C19: an external write that shares its tick with undo() or redo() is not
\* lost: once the tick has settled future is empty and, when the capacity is
\* positive, the front record of history holds the value the write replaced.
C19_NoWriteLost ==
    [][ \A v \in Values :
          WriteSharedTick(v) =>
              /\ future' = << >>
              /\ capacity' > 0 =>
                    /\ history' # << >>
                    /\ history'[1].value = v ]_vars

\* C20: in every reachable state the timestamps of history do not increase
\* from the front record to the last one.
C20_TimestampsOrdered ==
    \A i \in 1..Len(history) : \A j \in 1..Len(history) :
        i < j => history[i].timestamp >= history[j].timestamp

\* The objects someone other than the lists refers to.
Shared == { sourceRef, watchOldRef } \cup ExternalRefs

\* C15: no record of history or of future refers to the object the cell
\* holds; the record the handler, undo() or redo() stores refers to an object
\* nobody else refers to, and the object undo() or redo() writes to the cell
\* is one that nothing referred to before the call.
C15_NoAliasing ==
    /\ [](\A rec \in Range(history) \cup Range(future) : rec.ref # sourceRef)
    /\ [][ /\ ( /\ WatchSourceJob
                /\ hasChanged(source, sourceRef, watchOld, watchOldRef)
                /\ ~doingUndo /\ ~doingRedo
                /\ capacity > 0 ) =>
                  history'[1].ref \notin Shared
           /\ (undo /\ history # << >>) =>
                  /\ future'[1].ref \notin Shared
                  /\ sourceRef' \notin Live \cup ExternalRefs
                  /\ sourceRef' # future'[1].ref
           /\ (redo /\ future # << >>) =>
                  /\ history'[1].ref \notin Shared
                  /\ sourceRef' \notin Live \cup ExternalRefs
                  /\ sourceRef' # history'[1].ref ]_vars

\* The cell holds an object undo() or redo() has written, the user writes
\* the object the cell held before, and both lists hold records.
C15_Witness ==
    /\ boxed
    /\ ops = << "write" >>
    /\ sourceRef \in ExternalRefs
    /\ watchOldRef \notin ExternalRefs
    /\ source = watchOld
    /\ history # << >>
    /\ future # << >>

===============================================================================
